---- MODULE Spec2Model ----
(***************************************************************************)
(* Model of PearsonLaTeXBuilder (source/_exts/pearson/builder.py): one     *)
(* build of the builder, init() -> check_options() -> write() -> finish(). *)
(* write() and finish() are followed statement by statement; everything    *)
(* the host framework supplies (known documents, pending cross-references  *)
(* left in a tree, template outcomes, files on disk) is an input.          *)
(***************************************************************************)
EXTENDS Integers, Sequences, FiniteSets, TLC

VARIABLES pc, config, docnames, document_data, titles, global_context,
          idx, written, log, error, copied, outdir, theme, finish_env

vars == <<pc, config, docnames, document_data, titles, global_context,
          idx, written, log, error, copied, outdir, theme, finish_env>>

(* ---------------------------------------------------------------- bounds *)
MaxChapLen == 2
MaxAppLen == 2
LongExtra == 1

(* ------------------------------------------------------- program constants *)
ChapPadThreshold == 100
AppPadThreshold == 100
ChapWidth == 2
ChapWideWidth == 3
AppWidth == 2
AppWideWidth == 3

(* ------------------------------------------------------------ environment *)
None == "None"
Unset == "<unset>"
Unregistered == "<unregistered>"

all_docs == {"a", "b"}
UnknownDocs == {"x"}
ChapterIds == all_docs \cup UnknownDocs
AppendixIds == {"b", "x"}

SeqsUpTo(S, n) == UNION {[1..k -> S] : k \in 0..n}
Repeat(d, n) == [i \in 1..n |-> d]

LongChapterLists ==
    {Repeat("a", n) : n \in (ChapPadThreshold - 1)..(ChapPadThreshold + LongExtra)}
        \cup {<<"x">> \o Repeat("a", ChapPadThreshold - 1)}
LongAppendixLists ==
    {Repeat("b", n) : n \in (AppPadThreshold - 1)..(AppPadThreshold + LongExtra - 1)}

ValidSectioning == {None, "part", "chapter", "section"}

DefaultOptions ==
    [latex_toplevel_sectioning |-> None, latex_use_parts |-> FALSE,
     latex_top_sectionlevel |-> Unregistered]

OptionSets ==
    [latex_toplevel_sectioning : {None, "part", "bogus"},
     latex_use_parts : BOOLEAN,
     latex_top_sectionlevel : {Unregistered, "1"}]

Configs ==
    {[pearson_chapters |-> c, latex_appendices |-> a,
      latex_toplevel_sectioning |-> o.latex_toplevel_sectioning,
      latex_use_parts |-> o.latex_use_parts,
      latex_top_sectionlevel |-> o.latex_top_sectionlevel] :
        c \in SeqsUpTo(ChapterIds, MaxChapLen),
        a \in SeqsUpTo(AppendixIds, MaxAppLen),
        o \in OptionSets}
    \cup
    {[pearson_chapters |-> c, latex_appendices |-> a,
      latex_toplevel_sectioning |-> o.latex_toplevel_sectioning,
      latex_use_parts |-> o.latex_use_parts,
      latex_top_sectionlevel |-> o.latex_top_sectionlevel] :
        c \in LongChapterLists \cup {<<>>, <<"a">>},
        a \in LongAppendixLists \cup {<<>>, <<"b">>},
        o \in {DefaultOptions}}

\* What finish() has read of its configuration and of the disk so far.
NotRead == [images |-> Unset, latex_additional_files |-> Unset,
            latex_logo |-> Unset, logo_isfile |-> Unset]

NoError == [type |-> "none", at |-> "none"]
Err(t, w) == [type |-> t, at |-> w]

(* ------------------------------------------------------- name formatting *)
\* str.format with '{:0Wd}': the decimal digits of n, zero-padded on the
\* left to at least W characters.
RECURSIVE Digits(_)
Digits(n) == IF n < 10 THEN <<n>> ELSE Digits(n \div 10) \o <<n % 10>>

ZeroPad(w, ds) ==
    IF Len(ds) >= w THEN ds ELSE [i \in 1..(w - Len(ds)) |-> 0] \o ds

FormatName(fmt, num) ==
    [prefix |-> fmt.prefix, digits |-> ZeroPad(fmt.width, Digits(num))]

ChapNameFmtOff ==
    IF Len(document_data) > ChapPadThreshold
        THEN [prefix |-> "chap", width |-> ChapWideWidth]
        ELSE [prefix |-> "chap", width |-> ChapWidth]

chap_name_fmt ==
    IF Len(document_data) >= ChapPadThreshold
        THEN [prefix |-> "chap", width |-> ChapWideWidth]
        ELSE [prefix |-> "chap", width |-> ChapWidth]

AppNameFmtByChapters ==
    IF Len(document_data) >= AppPadThreshold
        THEN [prefix |-> "app", width |-> AppWideWidth]
        ELSE [prefix |-> "app", width |-> AppWidth]

app_name_fmt ==
    IF Len(config.latex_appendices) >= AppPadThreshold
        THEN [prefix |-> "app", width |-> AppWideWidth]
        ELSE [prefix |-> "app", width |-> AppWidth]

(* ------------------------------------------------------------------ Init *)
\* The builder object as constructed by the host, before init() runs.
\* self.titles is assigned nowhere in the class.
Init ==
    /\ pc = "new"
    /\ config \in Configs
    /\ docnames = {}
    /\ document_data = <<>>
    /\ titles = Unset
    /\ global_context = [chapter_names |-> <<>>, appendices |-> <<>>,
                         external_docs |-> <<>>]
    /\ idx = 0
    /\ written = <<>>
    /\ log = <<>>
    /\ error = NoError
    /\ copied = <<>>
    /\ outdir = {}
    /\ theme = None
    /\ finish_env = NotRead

Abort(e) ==
    /\ pc' = "aborted"
    /\ error' = e

(* ---------------------------------------------------------------- init() *)
init ==
    /\ pc = "new"
    /\ docnames' = {}
    /\ document_data' = <<>>
    /\ theme' = "pearson"
    /\ pc' = "check_options"
    /\ UNCHANGED <<config, titles, global_context, idx, written, log, error,
                   copied, outdir, finish_env>>

(* ------------------------------------------------------- check_options() *)
UsePartsWarnings(cfg) ==
    IF cfg.latex_use_parts
        THEN <<[level |-> "deprecation", msg |-> "latex_use_parts", arg |-> None]>>
             \o (IF cfg.latex_toplevel_sectioning # None
                    THEN <<[level |-> "warn", msg |-> "latex_use_parts conflicts",
                            arg |-> None]>>
                    ELSE <<>>)
        ELSE <<>>

check_options ==
    /\ pc = "check_options"
    /\ IF config.latex_toplevel_sectioning \notin ValidSectioning
         THEN IF config.latex_top_sectionlevel = Unregistered
                THEN \* the message reads a config value that does not exist
                     /\ Abort(Err("AttributeError", "check_options"))
                     /\ UNCHANGED <<config, log>>
                ELSE /\ config' = [config EXCEPT !.latex_top_sectionlevel = None]
                     /\ log' = log \o
                           <<[level |-> "warn",
                              msg |-> "invalid latex_toplevel_sectioning",
                              arg |-> config.latex_top_sectionlevel]>>
                           \o UsePartsWarnings(config)
                     /\ pc' = "write"
                     /\ UNCHANGED error
         ELSE /\ log' = log \o UsePartsWarnings(config)
              /\ pc' = "write"
              /\ UNCHANGED <<config, error>>
    /\ UNCHANGED <<docnames, document_data, titles, global_context, idx,
                   written, copied, outdir,
                   theme, finish_env>>

(* ------------------------------------------------------- init_chapters() *)
\* One iteration of "for chap in chapters": an unknown document is warned
\* about and skipped, a known one is appended to document_data.
InitChaptersBodyKeepAll(chap, data, lg) ==
    [data |-> Append(data, chap), log |-> lg]

InitChaptersBody(chap, data, lg) ==
    IF chap \notin all_docs
      THEN [data |-> data,
            log |-> Append(lg, [level |-> "warn", msg |-> "unknown chapter",
                                arg |-> chap])]
      ELSE [data |-> Append(data, chap), log |-> lg]

AfterChapters ==
    IF Len(config.latex_appendices) = 0 THEN "book" ELSE "appendices"

init_chapters ==
    /\ pc = "write"
    /\ IF config.pearson_chapters = <<>>
         THEN /\ log' = Append(log, [level |-> "warn",
                                     msg |-> "no pearson_chapters",
                                     arg |-> None])
              /\ pc' = "pygments"
         ELSE /\ pc' = "init_chapters"
              /\ UNCHANGED log
    /\ idx' = 0
    /\ UNCHANGED <<config, docnames, document_data, titles, global_context,
                   written, error, copied, outdir,
                   theme, finish_env>>

init_chapters_loop ==
    /\ pc = "init_chapters"
    /\ idx < Len(config.pearson_chapters)
    /\ LET r == InitChaptersBody(config.pearson_chapters[idx + 1],
                                 document_data, log)
       IN /\ document_data' = r.data
          /\ log' = r.log
    /\ idx' = IF idx + 1 = Len(config.pearson_chapters) THEN 0 ELSE idx + 1
    /\ pc' = IF idx + 1 = Len(config.pearson_chapters)
               THEN "pygments" ELSE "init_chapters"
    /\ UNCHANGED <<config, docnames, titles, global_context, written, error,
                   copied, outdir,
                   theme, finish_env>>

(* ------------------------------------------- _write_pygments_stylesheet() *)
NoName == [prefix |-> "", digits |-> <<>>]
File(kind, stem, name, doc, docs) ==
    [kind |-> kind, stem |-> stem, name |-> name, doc |-> doc, docs |-> docs]

write_pygments_stylesheet ==
    /\ pc = "pygments"
    /\ written' = Append(written, File("style", "pygments", NoName, None, <<>>))
    /\ global_context' = [chapter_names |-> <<>>, appendices |-> <<>>,
                          external_docs |-> <<>>]
    /\ pc' = "half-title"
    /\ UNCHANGED <<config, docnames, document_data, titles, idx, log, error,
                   copied, outdir,
                   theme, finish_env>>

(* ------------------------------------------------------ _render_template() *)
\* outcome of self.templates.render: "ok", an exception that carries a
\* lineno attribute (a template syntax error), or one that does not.
RenderOutcomes == {"ok", "TemplateSyntaxError", "UndefinedError"}
HasLineno(exc) == exc = "TemplateSyntaxError"

render_template(template_name, context_docs, outcome, nextpc) ==
    IF outcome = "ok"
      THEN /\ written' = Append(written,
                 File("template", template_name, NoName, None, context_docs))
           /\ pc' = nextpc
           /\ UNCHANGED <<log, error>>
      ELSE IF HasLineno(outcome)
        THEN /\ log' = Append(log, [level |-> "info",
                                    msg |-> "Failed to render template",
                                    arg |-> <<template_name, outcome, "lineno">>])
             /\ Abort(Err(outcome, template_name))
             /\ UNCHANGED written
        ELSE \* formatting the message reads err.lineno, which is missing
             /\ Abort(Err("AttributeError", template_name))
             /\ UNCHANGED <<written, log>>

LoopStart ==
    IF document_data = <<>> THEN AfterChapters ELSE "chapters"

render_half_title ==
    /\ pc = "half-title"
    /\ \E outcome \in RenderOutcomes :
          render_template("half-title", <<>>, outcome, "title")
    /\ UNCHANGED <<config, docnames, document_data, titles, global_context,
                   idx, copied, outdir,
                   theme, finish_env>>

render_title ==
    /\ pc = "title"
    /\ \E outcome \in RenderOutcomes :
          render_template("title", <<>>, outcome, LoopStart)
    /\ idx' = 0
    /\ UNCHANGED <<config, docnames, document_data, titles, global_context,
                   copied, outdir,
                   theme, finish_env>>

(* ------------------------------------------ process_doc / assemble_doctree *)
\* get_target_uri raises NoUri for a document outside self.docnames.
NoUri(names, docname) == docname \notin names

\* The references of the tree that are still pending once the host has
\* resolved what it can: those whose target has no URI in this unit.
PendingXrefs(names, targets) == {t \in targets : NoUri(names, t)}

\* Result of process_doc(name_fmt, num, docname) for a document whose tree
\* holds references to `targets`.
process_doc(name_fmt, num, docname, targets) ==
    LET name == FormatName(name_fmt, num)
        names == {docname}
        pending == PendingXrefs(names, targets)
    IN IF docname \notin all_docs
         THEN \* env.get_doctree(docname) has no tree to load
              [error |-> Err("UnresolvedDocument", docname),
               docnames |-> docnames, name |-> name, replaced |-> {}]
       ELSE IF pending # {} /\ titles = Unset
         THEN \* "for subdir, title in self.titles" on the first pending node
              [error |-> Err("AttributeError", "assemble_doctree"),
               docnames |-> names, name |-> name, replaced |-> {}]
       ELSE [error |-> NoError, docnames |-> names, name |-> name,
             replaced |-> pending]

XrefTargets == SUBSET all_docs

process_chapter ==
    /\ pc = "chapters"
    /\ idx < Len(document_data)
    /\ \E targets \in XrefTargets :
         LET chap_num == idx + 1
             docname == document_data[chap_num]
             r == process_doc(chap_name_fmt, chap_num, docname, targets)
         IN /\ docnames' = r.docnames
            /\ IF r.error = NoError
                 THEN /\ written' = Append(written,
                            File("unit", "chapter", r.name, docname, <<>>))
                      /\ global_context' =
                            [global_context EXCEPT
                                !.chapter_names = Append(@, r.name)]
                      /\ idx' = IF chap_num = Len(document_data) THEN 0 ELSE chap_num
                      /\ pc' = IF chap_num = Len(document_data)
                                 THEN AfterChapters ELSE "chapters"
                      /\ UNCHANGED error
                 ELSE /\ Abort(r.error)
                      /\ UNCHANGED <<written, global_context, idx>>
    /\ UNCHANGED <<config, document_data, titles, log, copied, outdir,
                   theme, finish_env>>

process_appendix ==
    /\ pc = "appendices"
    /\ idx < Len(config.latex_appendices)
    /\ \E targets \in XrefTargets :
         LET app_num == idx + 1
             docname == config.latex_appendices[app_num]
             r == process_doc(app_name_fmt, app_num, docname, targets)
         IN /\ docnames' = r.docnames
            /\ IF r.error = NoError
                 THEN /\ written' = Append(written,
                            File("unit", "appendix", r.name, docname, <<>>))
                      /\ global_context' =
                            [global_context EXCEPT
                                !.appendices = Append(@, r.name)]
                      /\ idx' = IF app_num = Len(config.latex_appendices)
                                  THEN 0 ELSE app_num
                      /\ pc' = IF app_num = Len(config.latex_appendices)
                                 THEN "book" ELSE "appendices"
                      /\ UNCHANGED error
                 ELSE /\ Abort(r.error)
                      /\ UNCHANGED <<written, global_context, idx>>
    /\ UNCHANGED <<config, document_data, titles, log, copied, outdir,
                   theme, finish_env>>

(* ------------------------------------------------------- the book template *)
ExternalDocsSwapped == global_context.appendices \o global_context.chapter_names

external_docs == global_context.chapter_names \o global_context.appendices

render_book ==
    /\ pc = "book"
    /\ global_context' = [global_context EXCEPT !.external_docs = external_docs]
    /\ \E outcome \in RenderOutcomes :
          render_template("book", external_docs, outcome, "finish")
    /\ UNCHANGED <<config, docnames, document_data, titles, idx, copied, outdir,
                   theme, finish_env>>

(* -------------------------------------------------------------- finish() *)
ImageFiles == {"img.png"}
AdditionalFileLists == {<<>>, <<"extra.sty">>, <<"logo.png">>,
                        <<"extra.sty", "logo.png">>}
LogoValues == {None, "logo.png"}
ThemeDirchain == <<"pearson", "basic">>

Copy(kind, file) == [kind |-> kind, file |-> file]
Range(f) == {f[i] : i \in DOMAIN f}
Reverse(sq) == [i \in 1..Len(sq) |-> sq[Len(sq) + 1 - i]]

\* "if self.images": every image collected while writing is copied.
finish_images ==
    /\ pc = "finish"
    /\ \E images \in SUBSET ImageFiles :
         /\ finish_env' = [finish_env EXCEPT !.images = images]
         /\ copied' = copied \o
                [i \in 1..Cardinality(images) |-> Copy("image", CHOOSE f \in images : TRUE)]
         /\ outdir' = outdir \cup images
    /\ pc' = "finish_additional"
    /\ UNCHANGED <<config, docnames, document_data, titles, global_context,
                   idx, written, log, error, theme>>

finish_additional_files ==
    /\ pc = "finish_additional"
    /\ \E files \in AdditionalFileLists :
         /\ finish_env' = [finish_env EXCEPT !.latex_additional_files = files]
         /\ copied' = copied \o [i \in 1..Len(files) |-> Copy("additional", files[i])]
         /\ outdir' = outdir \cup Range(files)
    /\ pc' = "finish_logo"
    /\ UNCHANGED <<config, docnames, document_data, titles, global_context,
                   idx, written, log, error, theme>>

LogoStepCopyFirst(logo, isfile, target_isfile, nextpc) ==
    IF logo = None
      THEN /\ pc' = nextpc
           /\ UNCHANGED <<copied, outdir, error>>
    ELSE /\ copied' = Append(copied, Copy("logo", logo))
         /\ outdir' = outdir \cup {logo}
         /\ IF ~isfile
              THEN Abort(Err("SphinxError", "logo file does not exist"))
              ELSE pc' = nextpc /\ UNCHANGED error

\* The logo: a missing source file is an error, an existing target (copied
\* earlier in this run or left over in the output directory) is kept.
LogoStep(logo, isfile, target_isfile, nextpc) ==
    IF logo = None
      THEN /\ pc' = nextpc
           /\ UNCHANGED <<copied, outdir, error>>
    ELSE IF ~isfile
      THEN /\ Abort(Err("SphinxError", "logo file does not exist"))
           /\ UNCHANGED <<copied, outdir>>
    ELSE IF ~target_isfile
      THEN /\ copied' = Append(copied, Copy("logo", logo))
           /\ outdir' = outdir \cup {logo}
           /\ pc' = nextpc
           /\ UNCHANGED error
    ELSE /\ pc' = nextpc
         /\ UNCHANGED <<copied, outdir, error>>

finish_logo ==
    /\ pc = "finish_logo"
    /\ \E logo \in LogoValues, isfile \in BOOLEAN, left_over \in BOOLEAN :
         /\ finish_env' = [finish_env EXCEPT !.latex_logo = logo,
                                             !.logo_isfile = isfile]
         /\ LogoStep(logo, isfile, logo \in outdir \/ left_over,
                     "finish_static")
    /\ UNCHANGED <<config, docnames, document_data, titles, global_context,
                   idx, written, log, theme>>

\* "if self.theme": the static directory of every theme of the chain, base
\* theme first.
finish_static ==
    /\ pc = "finish_static"
    /\ IF theme # None
         THEN LET entries == Reverse(ThemeDirchain)
              IN /\ copied' = copied \o
                        [i \in 1..Len(entries) |-> Copy("static", entries[i])]
                 /\ outdir' = outdir \cup Range(entries)
         ELSE UNCHANGED <<copied, outdir>>
    /\ pc' = "done"
    /\ UNCHANGED <<config, docnames, document_data, titles, global_context,
                   idx, written, log, error, theme, finish_env>>

Next ==
    \/ init
    \/ check_options
    \/ init_chapters
    \/ init_chapters_loop
    \/ write_pygments_stylesheet
    \/ render_half_title
    \/ render_title
    \/ process_chapter
    \/ process_appendix
    \/ render_book
    \/ finish_images
    \/ finish_additional_files
    \/ finish_logo
    \/ finish_static

Spec == Init /\ [][Next]_vars

(* ================================================================ claims *)
RECURSIVE DigitsValue(_)
DigitsValue(ds) ==
    IF ds = <<>> THEN 0
    ELSE 10 * DigitsValue(SubSeq(ds, 1, Len(ds) - 1)) + ds[Len(ds)]

IsKnown(d) == d \in all_docs
IsUnknown(d) == d \notin all_docs
Kept == SelectSeq(config.pearson_chapters, IsKnown)
Dropped == SelectSeq(config.pearson_chapters, IsUnknown)

IsChapterUnit(f) == f.kind = "unit" /\ f.stem = "chapter"
IsAppendixUnit(f) == f.kind = "unit" /\ f.stem = "appendix"
ChapterUnits == SelectSeq(written, IsChapterUnit)
AppendixUnits == SelectSeq(written, IsAppendixUnit)
DocsOf(units) == [i \in 1..Len(units) |-> units[i].doc]
NamesOf(units) == [i \in 1..Len(units) |-> units[i].name]
IsPrefix(p, q) == Len(p) =< Len(q) /\ SubSeq(q, 1, Len(p)) = p
BookWritten == \E i \in 1..Len(written) : written[i].stem = "book"

\* name is <prefix><i>, written with exactly w decimal digits
IsNumbered(name, prefix, i, w) ==
    /\ name.prefix = prefix
    /\ Len(name.digits) = w
    /\ \A k \in 1..Len(name.digits) : name.digits[k] \in 0..9
    /\ DigitsValue(name.digits) = i

\* C1: once write() has completed, chapter_names is chap01..chapL for the L
\* kept chapters, in input order, every name two digits wide when L < 100 and
\* three digits wide when L >= 100, and these are the chapter units emitted.
C1_ChapterNames ==
    BookWritten =>
        LET L == Len(Kept)
            w == IF L >= 100 THEN 3 ELSE 2
        IN /\ Len(global_context.chapter_names) = L
           /\ \A i \in 1..L :
                 IsNumbered(global_context.chapter_names[i], "chap", i, w)
           /\ NamesOf(ChapterUnits) = global_context.chapter_names
           /\ DocsOf(ChapterUnits) = Kept

C1_Witness ==
    /\ BookWritten
    /\ Len(Kept) >= 100
    /\ Len(global_context.chapter_names) >= 100

\* C2: the i-th appendix emitted is app<i>, counted from 1 whatever the
\* number of chapters, and the width of the number depends only on the
\* number of configured appendices (three digits from 100 on).
C2_AppendixNumbering ==
    LET w == IF Len(config.latex_appendices) >= 100 THEN 3 ELSE 2
    IN /\ \A i \in 1..Len(global_context.appendices) :
             IsNumbered(global_context.appendices[i], "app", i, w)
       /\ NamesOf(AppendixUnits) = global_context.appendices
       /\ IsPrefix(DocsOf(AppendixUnits), config.latex_appendices)

C2_Witness ==
    /\ Len(global_context.chapter_names) >= 100
    /\ Len(config.latex_appendices) < 100
    /\ Len(global_context.appendices) >= 1
    /\ Len(AppendixUnits) >= 1

\* C3: an unknown identifier of the chapter list is warned about and left
\* out, it takes no chapter number and it never aborts the run: the chapter
\* units are the known chapters, in order, numbered without gaps.
InitChaptersDone ==
    \/ pc \in {"pygments", "half-title", "title", "chapters", "appendices",
               "book", "finish", "finish_additional", "finish_logo",
               "finish_static", "done"}
    \/ pc = "aborted" /\ error.at # "check_options"
ChaptersDone ==
    pc \in {"appendices", "book", "finish", "finish_additional",
            "finish_logo", "finish_static", "done"}
IsUnknownChapterWarning(m) == m.msg = "unknown chapter"
UnknownChapterWarnings == SelectSeq(log, IsUnknownChapterWarning)

C3_UnknownChapterOmitted ==
    /\ InitChaptersDone =>
          /\ document_data = Kept
          /\ [i \in 1..Len(UnknownChapterWarnings) |->
                 UnknownChapterWarnings[i].arg] = Dropped
    /\ IsPrefix(DocsOf(ChapterUnits), Kept)
    /\ \A i \in 1..Len(ChapterUnits) :
          DigitsValue(ChapterUnits[i].name.digits) = i
    /\ ChaptersDone => DocsOf(ChapterUnits) = Kept
    /\ error.type = "UnresolvedDocument" => DocsOf(ChapterUnits) = Kept

C3_Witness ==
    /\ pc = "done"
    /\ Dropped # <<>>
    /\ Kept # <<>>
    /\ DocsOf(ChapterUnits) = Kept

\* C4: an unknown identifier of the appendix list never makes the run fail.
C4_UnknownAppendixSkipped ==
    ~ /\ pc = "aborted"
      /\ error.type = "UnresolvedDocument"
      /\ error.at \in Range(config.latex_appendices)
      /\ error.at \notin all_docs

\* C5: replacing the cross-references left pending in an assembled tree
\* never raises.
C5_XrefDegradesWithoutRaising ==
    ~ (pc = "aborted" /\ error.at = "assemble_doctree")

\* C6 (as stated): when finish() raises for a missing logo file, nothing at
\* all has been copied into the output directory.
C6_NothingCopiedBeforeLogoError ==
    error.type = "SphinxError" => copied = <<>>

\* C6 (amended): when finish() raises for a missing logo file, neither the
\* logo nor any theme static file has been copied; the images and the
\* additional files have all been copied already.
C6_LogoErrorBeforeLogoAndStatic ==
    finish_env.latex_logo \notin {Unset, None} /\ finish_env.logo_isfile = FALSE =>
        /\ pc = "aborted"
        /\ error.type = "SphinxError"
        /\ \A i \in 1..Len(copied) : copied[i].kind \in {"image", "additional"}
        /\ \A f \in finish_env.images : Copy("image", f) \in Range(copied)
        /\ \A f \in Range(finish_env.latex_additional_files) :
              Copy("additional", f) \in Range(copied)

C6_Witness ==
    /\ error.type = "SphinxError"
    /\ finish_env.images # {}
    /\ finish_env.latex_additional_files # <<>>
    /\ copied # <<>>

\* C7: write() is one linear pass: the chapter units in list order, then the
\* appendix units in list order, then the book template; no output is
\* written twice; the book's external_docs is the chapter names followed by
\* the appendix names; after a failed unit the book is never rendered.
Phase(f) ==
    IF f.stem = "pygments" THEN 0
    ELSE IF f.stem = "half-title" THEN 1
    ELSE IF f.stem = "title" THEN 2
    ELSE IF f.stem = "chapter" THEN 3
    ELSE IF f.stem = "appendix" THEN 4
    ELSE 5

\* Position of an output in the pass; strictly increasing positions mean
\* the phases come in order and no output is written a second time.
Position(f) == Phase(f) * 1000 + DigitsValue(f.name.digits)

C7_LinearPass ==
    /\ \A i \in 1..(Len(written) - 1) :
          Position(written[i]) < Position(written[i + 1])
    /\ IsPrefix(DocsOf(ChapterUnits), document_data)
    /\ IsPrefix(DocsOf(AppendixUnits), config.latex_appendices)
    /\ BookWritten =>
          /\ DocsOf(ChapterUnits) = document_data
          /\ DocsOf(AppendixUnits) = config.latex_appendices
          /\ written[Len(written)].stem = "book"
          /\ written[Len(written)].docs =
                 NamesOf(ChapterUnits) \o NamesOf(AppendixUnits)
          /\ global_context.external_docs =
                 global_context.chapter_names \o global_context.appendices
    /\ error.type = "UnresolvedDocument" \/ error.at = "assemble_doctree" =>
          ~BookWritten

C7_Witness ==
    /\ pc = "done"
    /\ Len(ChapterUnits) >= 2
    /\ Len(AppendixUnits) >= 1
    /\ BookWritten

\* C8: when rendering a template raises, the exception that leaves
\* _render_template is the template's own, and the failure has been reported
\* with the template name and the line number.
TemplateNames == {"half-title", "title", "book"}
C8_TemplateErrorSurfaced ==
    pc = "aborted" /\ error.at \in TemplateNames =>
        /\ error.type \in RenderOutcomes
        /\ log # <<>>
        /\ log[Len(log)].msg = "Failed to render template"
        /\ log[Len(log)].arg = <<error.at, error.type, "lineno">>

\* C9: once check_options has run on an invalid latex_toplevel_sectioning,
\* a warning has been logged, the option is unset and nothing was raised.
C9_InvalidSectioningIgnored ==
    pc \notin {"new", "check_options"} =>
        /\ error.at # "check_options"
        /\ config.latex_toplevel_sectioning \in ValidSectioning

\* C10: with an empty chapter list no document is written: no chapter unit,
\* no appendix unit and no book.
C10_EmptyChaptersWriteNothing ==
    config.pearson_chapters = <<>> =>
        \A i \in 1..Len(written) :
            written[i].kind # "unit" /\ written[i].stem # "book"

====
